---- MODULE Spec2Model ----
(***************************************************************************)
(* A model of the dockerizer command-line script (src/src/scanner.mjs):    *)
(* the project scan, the Dockerfile synthesis, the image build, and the    *)
(* Kubernetes and Nginx deployment drivers.                                *)
(*                                                                         *)
(* Every function of the script is asynchronous.  An action of the model   *)
(* is the code that runs between two waits on the outside world (a child   *)
(* process exiting, a timer firing).  File-system calls are awaited by the *)
(* script but nothing else runs meanwhile, so they are part of the action  *)
(* that makes them.                                                        *)
(***************************************************************************)
EXTENDS Integers, Sequences, FiniteSets, TLC

VARIABLES
    pc,            \* position of the script's single control flow
    now,           \* wall clock, in seconds (Date.now() / 1000)
    inflight,      \* external commands launched by exec() and not yet completed
    \* ---- waitForPodsReady
    timeout,       \* its timeout parameter, in seconds
    startTime,     \* its startTime local
    lastSample,    \* stdout of the latest completed `kubectl get pods`
    readySeen,     \* history: number of samples taken whose rows were all Running
    pollOutcome,   \* "none" | "success" | "timeout" | "queryError"
    queryFailed,   \* history: a status query of the poll has failed
    \* ---- the file system
    projectPathKind, \* what projectPath names: "dir" | "file" | "missing"
    fs,            \* the files under projectPath: path -> text
    written,       \* history: the paths the script has written in this run
    \* ---- scanProject, generateDockerfile, buildDockerImage
    fsAtStart,     \* history: fs when scanProject was called
    scans,         \* history: how many times scanProject has been called
    dockerFileFound,   \* the flags of scanProject (644-645)
    packageJsonFound,
    generated,     \* history: generateDockerfile wrote a Dockerfile in this call
    build,         \* buildDockerImage: [called, dockerfilePath, buildContext, exitCode]
    scanOutcome,   \* "none" | "resolved" | "rejected"
    scanError,     \* the error scanProject rejects with, "" if none
    \* ---- deployKubernetes
    cwd,           \* the files of the working directory: name -> text
    k8sQueue,      \* the manifests still to apply, the first one being applied
    applyLog,      \* history: kubectl apply commands started and completed
    k8sOutcome,    \* "none" | "resolved" | "rejected" | "unhandledRejection"
    k8sError,      \* the error deployKubernetes rejects with, "" if none
    servicePort,   \* the port reported at the end: "" (nothing yet), "null" or the port
    \* ---- deployNginxConfig
    nginxLog,      \* history: the commands of the chain started and completed
    nginxOutcome,  \* "none" | "resolved" | "rejected"
    nginxFailureLogged, \* 'Failed to deploy Nginx configuration' was logged (623)
    \* ---- deployDocker
    dockerRun,     \* the run command: "none" | "running" | "ok" | "failed"
    dockerOutcome, \* "none" | "resolved" | "rejected"
    \* ---- the scan command
    imageTag,      \* the tag the operator entered
    deployChoice,  \* the operator's answers to the deploy prompts, "" before them
    uncaught       \* the exception thrown out of a callback, "" if none

pollVars == <<timeout, startTime, lastSample, readySeen, pollOutcome, queryFailed>>
fsVars == <<projectPathKind, fs, written, cwd>>
scanVars == <<fsAtStart, scans, dockerFileFound, packageJsonFound, generated, build,
              scanOutcome, scanError>>
k8sVars == <<k8sQueue, applyLog, k8sOutcome, k8sError, servicePort>>
nginxVars == <<nginxLog, nginxOutcome, nginxFailureLogged>>
dockerVars == <<dockerRun, dockerOutcome>>
cliVars == <<imageTag, deployChoice, uncaught>>
otherVars == <<nginxVars, dockerVars, cliVars>>
vars == <<pc, now, inflight, pollVars, fsVars, scanVars, k8sVars, otherVars>>

(***************************************************************************)
(* waitForPodsReady (scanner.mjs 349-398)                                  *)
(***************************************************************************)

\* timeout = 300 is the default of the parameter.
DefaultTimeout == 300
\* setTimeout(resolve, 5000): the pause between two samples, in seconds.
PollInterval == 5

\* Bounds of the model.
MaxTimeout == 12      \* timeouts tried when the poll is started on its own
MaxQueryTime == 1     \* a status query takes 0..MaxQueryTime steps of PollInterval

\* The header line of `kubectl get pods`, already split into columns.
Hdr == <<"NAME", "READY", "STATUS", "RESTARTS", "AGE">>
\* An empty line: ''.split(/\s+/) is [''].
Blank == <<"">>
Row(name, ready, status) == <<name, ready, status, "0", "1m">>

\* stdout of a successful query: the sequence of its lines (split on '\n', so
\* never empty), each line given as the columns line.split(/\s+/) yields.
PodSamples ==
    { << Blank >>,                                                      \* no output at all
      << Hdr, Blank >>,                                                 \* header only
      << Hdr, Row("web-1", "1/1", "Running"), Row("web-2", "0/1", "Pending"), Blank >>,
      << Hdr, Row("web-1", "1/1", "Running"), Row("web-2", "1/1", "Running"), Blank >>,
      << Hdr, Blank, Row("web-2", "0/1", "Pending") >>,                 \* a row after an empty line
      << Hdr, Row("web-1", "0/1", "CrashLoopBackOff"), Row("web-2", "1/1", "Running") >>,
      << Hdr, <<"web-1", "1/1">>, Blank >>,                             \* a row with no status column
      << Hdr, <<"web-1", "Running", "Error", "0", "1m">> >>,            \* "Running" in another column
      << Row("web-0", "0/1", "Pending"), Row("web-1", "1/1", "Running") >> } \* first line is always skipped

NoSample == << >>

\* line.trim() === ''
IsBlankLine(line) == \A i \in 1..Len(line) : line[i] = ""

\* columns[k] of a JavaScript array (0-based); undefined beyond its end.
Column(columns, k) == IF k + 1 <= Len(columns) THEN columns[k + 1] ELSE "undefined"

\* const podStatus = columns[2]
PodStatusMutant(columns) == Column(columns, 1)
PodStatus(columns) == Column(columns, 2)

\* The for loop over lines.slice(1) (366-379): the value of allPodsReady after
\* it, scanning from line i on.  A non-Running row ends the loop (break).
RECURSIVE AllPodsReadyFrom(_, _)
AllPodsReadyFrom(lines, i) ==
    IF i > Len(lines) THEN TRUE
    ELSE IF IsBlankLine(lines[i]) THEN AllPodsReadyFrom(lines, i + 1)
    ELSE IF PodStatus(lines[i]) # "Running" THEN FALSE
    ELSE AllPodsReadyFrom(lines, i + 1)

\* lines.slice(1) skips the first line, whatever it holds.
AllPodsReady(lines) == AllPodsReadyFrom(lines, 2)

\* while ((Date.now() - startTime) / 1000 < timeout)
WithinTimeout(t, start, limit) == t - start < limit

\* The head of the while loop, entered at clock value t: either the next
\* query is launched or the loop ends and the timeout error is thrown.
PollLoopHead(t, start, limit) ==
    IF WithinTimeout(t, start, limit)
    THEN /\ pc' = "poll_query"
         /\ inflight' = inflight \cup {<<"kubectl get pods -n default">>}
         /\ pollOutcome' = "none"
    ELSE /\ pc' = "poll_done"
         /\ inflight' = inflight
         /\ pollOutcome' = "timeout"

\* waitForPodsReady is called: startTime is taken and the loop is entered.
WaitForPodsReady_Enter ==
    /\ pc = "poll_start"
    /\ startTime' = now
    /\ PollLoopHead(now, now, timeout)
    /\ UNCHANGED <<now, timeout, lastSample, readySeen, queryFailed, fsVars, scanVars,
                   k8sVars, otherVars>>

\* The catch block (385-389): the error of a failed query is logged and
\* thrown again, which leaves the loop and the function.
OnQueryErrorMutant == [pc |-> "poll_sleep", outcome |-> "none"]
OnQueryError == [pc |-> "poll_done", outcome |-> "queryError"]

\* The callback of exec('kubectl get pods ...') after the query took d seconds:
\* an error rejects and the catch block rethrows; otherwise the sample is
\* parsed, and the function returns if every row is Running, else it sleeps.
WaitForPodsReady_QueryDone ==
    /\ pc = "poll_query"
    /\ \E d \in 0..MaxQueryTime :
         /\ now' = now + d * PollInterval
         /\ inflight' = inflight \ {<<"kubectl get pods -n default">>}
         /\ \/ /\ pollOutcome' = OnQueryError.outcome
               /\ pc' = OnQueryError.pc
               /\ queryFailed' = TRUE
               /\ UNCHANGED <<lastSample, readySeen>>
            \/ \E sample \in PodSamples :
                 /\ lastSample' = sample
                 /\ UNCHANGED queryFailed
                 /\ IF AllPodsReady(sample)
                    THEN /\ pollOutcome' = "success"
                         /\ pc' = "poll_done"
                         /\ readySeen' = readySeen + 1
                    ELSE /\ pollOutcome' = "none"
                         /\ pc' = "poll_sleep"
                         /\ UNCHANGED readySeen
    /\ UNCHANGED <<timeout, startTime, fsVars, scanVars, k8sVars, otherVars>>

\* The 5-second timer fires and the loop head runs.
WaitForPodsReady_SleepDone ==
    /\ pc = "poll_sleep"
    /\ now' = now + PollInterval
    /\ PollLoopHead(now + PollInterval, startTime, timeout)
    /\ UNCHANGED <<timeout, startTime, lastSample, readySeen, queryFailed, fsVars, scanVars,
                   k8sVars, otherVars>>

(***************************************************************************)
(* The project tree.  A file name is the sequence of the pieces the        *)
(* script's string tests tell apart ("prod.Dockerfile" is "prod." followed *)
(* by "Dockerfile"); a path is the sequence of names from projectPath down. *)
(***************************************************************************)

F_Dockerfile == << <<"Dockerfile">> >>
F_ProdDockerfile == << <<"prod.", "Dockerfile">> >>
F_AppDockerfile == << <<"App">>, <<"Dockerfile">> >>
F_PackageJson == << <<"package.json">> >>
F_MyPackageJson == << <<"my-", "package.json">> >>
F_AppPackageJson == << <<"App">>, <<"package.json">> >>
F_IndexJs == << <<"index.js">> >>
F_Readme == << <<"README.md">> >>
F_WebDeployment == << <<"web-", "deployment.yaml">> >>
F_ApiDeployment == << <<"api-", "deployment.yaml">> >>
F_WebService == << <<"web-", "service.yaml">> >>
F_DbService == << <<"App">>, <<"db-", "service.yaml">> >>

\* fs.readdir of each directory of the modelled trees, all entries present,
\* in the order readdir returns them (byte order of the names).
DirEntries(dir) ==
    IF dir = << >>
    THEN << <<"App">>, <<"Dockerfile">>, <<"README.md">>, <<"api-", "deployment.yaml">>,
            <<"index.js">>, <<"my-", "package.json">>, <<"package.json">>,
            <<"prod.", "Dockerfile">>, <<"web-", "deployment.yaml">>,
            <<"web-", "service.yaml">> >>
    ELSE IF dir = << <<"App">> >>
    THEN << <<"Dockerfile">>, <<"db-", "service.yaml">>, <<"package.json">> >>
    ELSE << >>

IsPrefix(a, b) == Len(a) <= Len(b) /\ SubSeq(b, 1, Len(a)) = a

\* stat.isDirectory(): a directory is there when a file lies below it.
IsDirectory(tree, path) ==
    \E f \in DOMAIN tree : Len(f) > Len(path) /\ IsPrefix(path, f)
PathExists(tree, path) == path \in DOMAIN tree \/ IsDirectory(tree, path)

\* fs.readdir(directory)
Readdir(tree, dir) ==
    SelectSeq(DirEntries(dir), LAMBDA n : PathExists(tree, Append(dir, n)))

\* String.prototype.toLowerCase, piece by piece.
LowerPiece(s) ==
    CASE s = "Dockerfile" -> "dockerfile"
      [] s = "App" -> "app"
      [] s = "README.md" -> "readme.md"
      [] OTHER -> s
ToLowerCase(str) == [i \in 1..Len(str) |-> LowerPiece(str[i])]

\* String.prototype.endsWith
EndsWith(str, suffix) ==
    Len(suffix) <= Len(str) /\ SubSeq(str, Len(str) - Len(suffix) + 1, Len(str)) = suffix

\* path.join(projectPath, ...names): the string of a path of the tree.
RECURSIVE PathString(_)
PathString(path) ==
    IF path = << >> THEN <<"<projectPath>">>
    ELSE PathString(SubSeq(path, 1, Len(path) - 1)) \o <<"/">> \o path[Len(path)]

\* path.dirname of a file of the tree
Dirname(path) == SubSeq(path, 1, Len(path) - 1)
Basename(path) == path[Len(path)]

(***************************************************************************)
(* findFileRecursively (58-74) and scanEntireDirectory (155-176)           *)
(***************************************************************************)

\* file.toLowerCase() === lowerFileName
NameMatches(file, fileName) == ToLowerCase(file) = ToLowerCase(fileName)

NotFound == << <<"null">> >>

\* The for loop of findFileRecursively over readdir(directory), from entry i.
RECURSIVE FindFrom(_, _, _, _)
FindFrom(tree, dir, fileName, i) ==
    LET files == Readdir(tree, dir) IN
    IF i > Len(files) THEN NotFound
    ELSE LET fullPath == Append(dir, files[i]) IN
         IF IsDirectory(tree, fullPath)
         THEN LET foundPath == FindFrom(tree, fullPath, fileName, 1) IN
              IF foundPath # NotFound THEN foundPath
              ELSE FindFrom(tree, dir, fileName, i + 1)
         ELSE IF NameMatches(files[i], fileName) THEN fullPath
         ELSE FindFrom(tree, dir, fileName, i + 1)

findFileRecursively(tree, fileName) == FindFrom(tree, << >>, fileName, 1)

\* The for loop of scanEntireDirectory, from entry i: the files in walk order.
RECURSIVE ScanFrom(_, _, _)
ScanFrom(tree, dir, i) ==
    LET files == Readdir(tree, dir) IN
    IF i > Len(files) THEN << >>
    ELSE LET fullPath == Append(dir, files[i]) IN
         (IF IsDirectory(tree, fullPath)
          THEN ScanFrom(tree, fullPath, 1)
          ELSE << fullPath >>) \o ScanFrom(tree, dir, i + 1)

scanEntireDirectory(tree) == ScanFrom(tree, << >>, 1)


(***************************************************************************)
(* File contents.  A text is the sequence of the pieces the script's       *)
(* string operations tell apart.                                           *)
(***************************************************************************)

UserDockerfile == <<"FROM alpine:3", "\n", "CMD [\"sh\"]">>
PkgExpress == <<"{", "\"dependencies\":{", "\"express\":\"4.x\"", "}", "}">>
PkgPlain == <<"{", "\"dependencies\":{", "\"lodash\":\"4.x\"", "}", "}">>
PkgNoDeps == <<"{", "\"name\":\"demo\"", "}">>
PkgBroken == <<"{", "\"name\":">>
IndexListen8000 == <<"const app = express();", "app.listen(8000)", ";">>
IndexListen3000 == <<"const app = express();", "app.listen(3000)", ";">>
ReadmeText == <<"# demo">>

\* templates/nodejs.Dockerfile, read at 120-121.  The file is not among the
\* sources; its EXPOSE and CMD lines are the ones lines 127-135 look for.
NodejsTemplate ==
    <<"FROM node:18", "\n", "WORKDIR /app", "\n", "COPY . .", "\n", "RUN npm install", "\n",
      "EXPOSE 3000", "\n", "CMD [\"npm\", \"start\"]", "\n">>

\* String.prototype.replace(a, b) with a string pattern: the first occurrence.
RECURSIVE Replace(_, _, _)
Replace(text, a, b) ==
    IF text = << >> THEN << >>
    ELSE IF Head(text) = a THEN <<b>> \o Tail(text)
    ELSE <<Head(text)>> \o Replace(Tail(text), a, b)

\* String.prototype.includes
Includes(text, piece) == \E i \in 1..Len(text) : text[i] = piece

IsSpace(piece) == piece \in {"\n", " "}
\* String.prototype.trim
RECURSIVE TrimStart(_)
TrimStart(text) ==
    IF text # << >> /\ IsSpace(Head(text)) THEN TrimStart(Tail(text)) ELSE text
RECURSIVE TrimEnd(_)
TrimEnd(text) ==
    IF text # << >> /\ IsSpace(text[Len(text)])
    THEN TrimEnd(SubSeq(text, 1, Len(text) - 1)) ELSE text
Trim(text) == TrimEnd(TrimStart(text))

\* JSON.parse(packageJson) throws on a text that is not a JSON document.
JsonParses(text) == text # << >> /\ Head(text) = "{" /\ text[Len(text)] = "}"
\* packageJsonData.dependencies, packageJsonData.dependencies['express']
HasDependencies(text) == Includes(text, "\"dependencies\":{")
DependsOnExpressMutant(text) == HasDependencies(text)
DependsOnExpress(text) == HasDependencies(text) /\ Includes(text, "\"express\":\"4.x\"")

(***************************************************************************)
(* analyzeNodeProject (77-100) and generateDockerfile (103-152)            *)
(***************************************************************************)

\* The text generateDockerfile builds for a nodejs project (113-136).
NodejsDockerfile(tree) ==
    LET hasPkg == F_PackageJson \in DOMAIN tree
        indexJsContent == IF F_IndexJs \in DOMAIN tree THEN tree[F_IndexJs] ELSE << >>
        t0 == NodejsTemplate
        t1 == IF hasPkg /\ DependsOnExpress(tree[F_PackageJson])
              THEN Replace(Replace(t0, "EXPOSE 3000", "EXPOSE 8000"),
                           "CMD [\"npm\", \"start\"]", "CMD [\"node\", \"index.js\"]")
              ELSE t0
        t2 == IF Includes(indexJsContent, "app.listen(8000)")
              THEN Replace(t1, "EXPOSE 3000", "EXPOSE 8000")
              ELSE t1
    IN  t2

\* generateDockerfile('nodejs', projectPath): [error, tree, wrote].
generateDockerfile(tree) ==
    IF PathExists(tree, F_Dockerfile)
    THEN [error |-> "", tree |-> tree, wrote |-> FALSE]
    ELSE IF F_PackageJson \in DOMAIN tree /\ ~JsonParses(tree[F_PackageJson])
    THEN [error |-> "SyntaxError", tree |-> tree, wrote |-> FALSE]
    ELSE [error |-> "",
          tree |-> (F_Dockerfile :> Trim(NodejsDockerfile(tree))) @@ tree,
          wrote |-> TRUE]

(***************************************************************************)
(* buildDockerImage (203-244)                                              *)
(***************************************************************************)

\* The name the operator entered for the image (730).
ProjectName == "demo"

\* `${projectName}:${imageTag}`
ImageRef(tag) == ProjectName \o ":" \o tag

\* `docker build -t ${projectName}:${imageTag} ${buildContext}` (216)
BuildCommand(tag) == <<"docker build -t", ImageRef(tag)>>

NoBuild == [called |-> FALSE, dockerfilePath |-> NotFound, buildContext |-> NotFound,
            exitCode |-> -1]

\* Lines 207-216: the lookup of the Dockerfile and the build context.
BuildLookup(tree) ==
    LET dockerfilePath == findFileRecursively(tree, <<"Dockerfile">>) IN
    [called |-> TRUE, dockerfilePath |-> dockerfilePath,
     buildContext |-> IF dockerfilePath = NotFound THEN NotFound ELSE Dirname(dockerfilePath),
     exitCode |-> -1]

(***************************************************************************)
(* scanProject (629-695)                                                   *)
(***************************************************************************)

\* file.toLowerCase().endsWith('dockerfile')
IsDockerfilePathMutant(file) == file = F_Dockerfile
IsDockerfilePath(file) == EndsWith(ToLowerCase(PathString(file)), <<"dockerfile">>)
\* else if (file.endsWith('package.json'))
IsPackageJsonPath(file) ==
    ~IsDockerfilePath(file) /\ EndsWith(PathString(file), <<"package.json">>)

\* The flags after the loop over allFiles (649-665).
DockerFileFound(tree) ==
    LET allFiles == scanEntireDirectory(tree) IN
    \E i \in 1..Len(allFiles) : IsDockerfilePath(allFiles[i])
PackageJsonFound(tree) ==
    LET allFiles == scanEntireDirectory(tree) IN
    \E i \in 1..Len(allFiles) : IsPackageJsonPath(allFiles[i])

\* if (!dockerFileFound) generateDockerfile(...) (673-679)
ScanGenerateAlways(tree, found) ==
    [error |-> "", tree |-> (F_Dockerfile :> Trim(NodejsDockerfile(tree))) @@ tree,
     wrote |-> TRUE]
ScanGenerate(tree, found) ==
    IF ~found THEN generateDockerfile(tree)
    ELSE [error |-> "", tree |-> tree, wrote |-> FALSE]

\* scanProject up to the point where it waits for the build process, or to
\* its end when no build is started.
ScanProject_Run ==
    /\ pc = "scan_start"
    /\ fsAtStart' = fs
    /\ scans' = scans + 1
    /\ UNCHANGED <<now, pollVars, projectPathKind, cwd, k8sVars, otherVars>>
    /\ IF projectPathKind = "missing"
       THEN \* fs.stat rejects; the catch block logs and rethrows
            /\ pc' = "scan_done"
            /\ scanOutcome' = "rejected"
            /\ scanError' = "ENOENT"
            /\ dockerFileFound' = FALSE /\ packageJsonFound' = FALSE
            /\ generated' = FALSE /\ build' = NoBuild
            /\ UNCHANGED <<fs, written, inflight>>
       ELSE IF projectPathKind = "file"
       THEN \* 637-641: log and return
            /\ pc' = "scan_done"
            /\ scanOutcome' = "resolved"
            /\ scanError' = ""
            /\ dockerFileFound' = FALSE /\ packageJsonFound' = FALSE
            /\ generated' = FALSE /\ build' = NoBuild
            /\ UNCHANGED <<fs, written, inflight>>
       ELSE LET dFound == DockerFileFound(fs)
                pFound == PackageJsonFound(fs)
                gen == ScanGenerate(fs, dFound)
                lookup == BuildLookup(gen.tree)
            IN  /\ dockerFileFound' = dFound
                /\ packageJsonFound' = pFound
                /\ IF ~pFound
                   THEN \* 685-689: unknown project type, the scan still completes
                        /\ pc' = "scan_done"
                        /\ scanOutcome' = "resolved" /\ scanError' = ""
                        /\ generated' = FALSE /\ build' = NoBuild
                        /\ UNCHANGED <<fs, written, inflight>>
                   ELSE IF gen.error # ""
                   THEN /\ pc' = "scan_done"
                        /\ scanOutcome' = "rejected" /\ scanError' = gen.error
                        /\ generated' = FALSE /\ build' = NoBuild
                        /\ UNCHANGED <<fs, written, inflight>>
                   ELSE /\ fs' = gen.tree
                        /\ generated' = gen.wrote
                        /\ written' = IF gen.wrote THEN written \cup {PathString(F_Dockerfile)}
                                      ELSE written
                        /\ build' = lookup
                        /\ IF lookup.dockerfilePath = NotFound
                           THEN /\ pc' = "scan_done"
                                /\ scanOutcome' = "rejected"
                                /\ scanError' = "Dockerfile not found in project directory"
                                /\ UNCHANGED inflight
                           ELSE /\ pc' = "build_running"
                                /\ scanOutcome' = "none" /\ scanError' = ""
                                /\ inflight' = inflight \cup {BuildCommand(imageTag)}

\* The exit statuses of the build process the model tries.
ExitCodes == {0, 1, 2}

\* if (code === 0) resolve() else reject(...) (230-236); the catch blocks of
\* buildDockerImage (240-243) and scanProject rethrow the error.
ExitOutcomeMutant(code) == "resolved"
ExitOutcome(code) == IF code = 0 THEN "resolved" ELSE "rejected"

\* new Error(`Docker build failed with exit code ${code}`)
BuildFailed(code) == "Docker build failed with exit code " \o ToString(code)

\* buildProcess.on('exit', code) (229-237) and the rest of scanProject.
BuildDockerImage_Exit ==
    /\ pc = "build_running"
    /\ \E code \in ExitCodes :
         /\ build' = [build EXCEPT !.exitCode = code]
         /\ scanOutcome' = ExitOutcome(code)
         /\ scanError' = IF ExitOutcome(code) = "resolved" THEN "" ELSE BuildFailed(code)
    /\ pc' = "scan_done"
    /\ inflight' = inflight \ {BuildCommand(imageTag)}
    /\ UNCHANGED <<now, pollVars, fsVars, fsAtStart, scans, dockerFileFound,
                   packageJsonFound, generated, k8sVars, otherVars>>

\* Bound of the model: the script is run on the same directory at most
\* MaxScans times.
MaxScans == 2

\* The operator runs the scan again on the same directory.
ScanProject_Again ==
    /\ pc = "scan_done"
    /\ scans < MaxScans
    /\ projectPathKind = "dir"
    /\ pc' = "scan_start"
    /\ scanOutcome' = "none" /\ scanError' = ""
    /\ written' = {}
    /\ UNCHANGED <<now, inflight, pollVars, projectPathKind, fs, cwd, fsAtStart, scans,
                   dockerFileFound, packageJsonFound, generated, build, k8sVars, otherVars>>

(***************************************************************************)
(* updateWebDeploymentImage (315-346)                                      *)
(***************************************************************************)

\* web-deployment.yaml as text: the path to the container list, then for each
\* container its keys and values.
YamlHeader == <<"spec:", "template:", "spec:", "containers:">>
WebDeploymentOne ==
    YamlHeader \o <<"- name:", "web", "image:", "nginx:1.19", "imagePullPolicy:", "Always">>
WebDeploymentTwo ==
    YamlHeader \o <<"- name:", "web", "image:", "demo:v1",
                    "- name:", "sidecar", "image:", "busybox:1">>
WebDeploymentOther == <<"kind:", "ConfigMap">>
ManifestText == <<"kind:", "Service">>

\* yaml.load: the containers of deploymentYaml.spec.template.spec, read pair
\* by pair; "" stands for a key the container does not have.
RECURSIVE LoadContainers(_, _)
LoadContainers(items, acc) ==
    IF Len(items) < 2 THEN acc
    ELSE LET k == items[1]
             v == items[2]
             rest == SubSeq(items, 3, Len(items))
         IN  IF k = "- name:"
             THEN LoadContainers(rest, Append(acc, [name |-> v, image |-> "",
                                                    imagePullPolicy |-> ""]))
             ELSE IF acc = << >> THEN LoadContainers(rest, acc)
             ELSE IF k = "image:"
             THEN LoadContainers(rest, [acc EXCEPT ![Len(acc)].image = v])
             ELSE IF k = "imagePullPolicy:"
             THEN LoadContainers(rest, [acc EXCEPT ![Len(acc)].imagePullPolicy = v])
             ELSE LoadContainers(rest, acc)

HasContainerList(text) == Len(text) >= 4 /\ SubSeq(text, 1, 4) = YamlHeader
YamlLoad(text) == LoadContainers(SubSeq(text, 5, Len(text)), << >>)

\* yaml.dump of the document with the given containers.
RECURSIVE DumpContainers(_)
DumpContainers(containers) ==
    IF containers = << >> THEN << >>
    ELSE LET c == Head(containers) IN
         <<"- name:", c.name>>
         \o (IF c.image = "" THEN << >> ELSE <<"image:", c.image>>)
         \o (IF c.imagePullPolicy = "" THEN << >>
             ELSE <<"imagePullPolicy:", c.imagePullPolicy>>)
         \o DumpContainers(Tail(containers))
YamlDump(containers) == YamlHeader \o DumpContainers(containers)

\* The for loop at 327-335.
UpdateContainersMutant(containers, tag) ==
    [i \in 1..Len(containers) |-> [containers[i] EXCEPT !.image = ImageRef(tag)]]
UpdateContainers(containers, tag) ==
    [i \in 1..Len(containers) |->
        [containers[i] EXCEPT !.image = ImageRef(tag), !.imagePullPolicy = "IfNotPresent"]]

\* updateWebDeploymentImage(projectPath, projectName, imageTag): [error, tree]
updateWebDeploymentImage(tree, tag) ==
    IF F_WebDeployment \notin DOMAIN tree
    THEN [error |-> "ENOENT", tree |-> tree]
    ELSE IF ~HasContainerList(tree[F_WebDeployment])
    THEN [error |-> "TypeError", tree |-> tree]
    ELSE [error |-> "",
          tree |-> [tree EXCEPT ![F_WebDeployment] =
                       YamlDump(UpdateContainers(YamlLoad(tree[F_WebDeployment]), tag))]]

(***************************************************************************)
(* scanYAMLFiles (179-200) and generateKubernetesYAML (270-312)            *)
(***************************************************************************)

\* path.join(process.cwd(), name)
CwdPath(name) == <<"<cwd>", "/">> \o name

GeneratedDeployment == <<ProjectName, "-", "deployment.yaml">>
GeneratedService == <<ProjectName, "-", "service.yaml">>
DeploymentYamlText == <<"kind:", "Deployment", "replicas:", "1", "image:", "demo:latest",
                        "containerPort:", "80">>
ServiceYamlText == <<"kind:", "Service", "type:", "NodePort", "port:", "80",
                     "targetPort:", "80">>

\* The path strings of scanEntireDirectory's result.
AllFileStrings(tree) ==
    LET allFiles == scanEntireDirectory(tree) IN
    [i \in 1..Len(allFiles) |-> PathString(allFiles[i])]

IsServiceYaml(file) == EndsWith(file, <<"service.yaml">>)
IsDeploymentYaml(file) == ~IsServiceYaml(file) /\ EndsWith(file, <<"deployment.yaml">>)

ServiceYAMLs(tree) == SelectSeq(AllFileStrings(tree), IsServiceYaml)
DeploymentYAMLs(tree) == SelectSeq(AllFileStrings(tree), IsDeploymentYaml)

\* generateKubernetesYAML(projectName, 'latest'): the working directory after it.
generateKubernetesYAML(dir) ==
    (GeneratedDeployment :> DeploymentYamlText) @@ (GeneratedService :> ServiceYamlText) @@ dir

(***************************************************************************)
(* deployKubernetes (401-575)                                              *)
(***************************************************************************)

\* The deployment loop (428-458) runs before the service loop (461-491).
ApplyOrderMutant(deploymentYAMLs, serviceYAMLs) == serviceYAMLs \o deploymentYAMLs
ApplyOrder(deploymentYAMLs, serviceYAMLs) == deploymentYAMLs \o serviceYAMLs

\* fs.pathExists(path.resolve(file))
ManifestExists(tree, dir, file) ==
    \/ \E f \in DOMAIN tree : PathString(f) = file
    \/ \E n \in DOMAIN dir : CwdPath(n) = file

\* `continue` on a manifest that does not exist (437-441, 470-474).
RECURSIVE SkipMissing(_, _, _)
SkipMissing(tree, dir, queue) ==
    IF queue = << >> \/ ManifestExists(tree, dir, Head(queue)) THEN queue
    ELSE SkipMissing(tree, dir, Tail(queue))

ApplyCommand(file) == <<"kubectl apply -f">> \o file

\* The commands an iteration of the loops launches with `queue` still to
\* apply: each iteration awaits the promise around its exec (445-457,
\* 478-490) before the next one starts.
LaunchedMutant(queue) == {ApplyCommand(queue[i]) : i \in 1..Len(queue)}
Launched(queue) == {ApplyCommand(Head(queue))}

\* The two loops from the manifest at the head of `queue` on: the next
\* existing manifest is applied, or, with none left, waitForPodsReady is called.
ApplyNext(tree, dir, queue, log) ==
    LET q == SkipMissing(tree, dir, queue) IN
    IF q = << >>
    THEN /\ pc' = "poll_start"
         /\ k8sQueue' = << >>
         /\ inflight' = inflight
         /\ applyLog' = log
    ELSE /\ pc' = "k8s_apply"
         /\ k8sQueue' = q
         /\ inflight' = inflight \cup Launched(q)
         /\ applyLog' = Append(log, [ev |-> "start", file |-> Head(q)])

\* deployKubernetes from its call to the first wait on a child process.
DeployKubernetes_Call ==
    /\ pc = "k8s_start"
    /\ UNCHANGED <<now, pollVars, projectPathKind, scanVars, servicePort, otherVars>>
    /\ IF projectPathKind = "undefined"
       THEN /\ pc' = "k8s_done"
            /\ k8sOutcome' = "rejected"
            /\ k8sError' = "projectPath is undefined or invalid."
            /\ UNCHANGED <<fs, cwd, written, inflight, k8sQueue, applyLog>>
       ELSE LET upd == updateWebDeploymentImage(fs, "latest")
                serviceYAMLs == ServiceYAMLs(upd.tree)
                deploymentYAMLs == DeploymentYAMLs(upd.tree)
                none == serviceYAMLs = << >> /\ deploymentYAMLs = << >>
                dir == IF none THEN generateKubernetesYAML(cwd) ELSE cwd
                queue == IF none
                         THEN ApplyOrder(<<CwdPath(GeneratedDeployment)>>,
                                         <<CwdPath(GeneratedService)>>)
                         ELSE ApplyOrder(deploymentYAMLs, serviceYAMLs)
            IN  IF upd.error # ""
                THEN /\ pc' = "k8s_done"
                     /\ k8sOutcome' = "rejected"
                     /\ k8sError' = upd.error
                     /\ UNCHANGED <<fs, cwd, written, inflight, k8sQueue, applyLog>>
                ELSE /\ fs' = upd.tree
                     /\ cwd' = dir
                     /\ written' = written \cup {PathString(F_WebDeployment)}
                                   \cup (IF none THEN {CwdPath(GeneratedDeployment),
                                                       CwdPath(GeneratedService)}
                                         ELSE {})
                     /\ UNCHANGED <<k8sOutcome, k8sError>>
                     /\ ApplyNext(upd.tree, dir, queue, applyLog)

\* if (error) { ...; return reject(error); } (447-451, 480-484)
RejectsMutant(error) == FALSE
Rejects(error) == error

\* The callback of exec('kubectl apply -f ...') (446-456, 479-489): a
\* rejection leaves the loop and the function through the catch block
\* (571-574); otherwise the loops go on.
DeployKubernetes_ApplyDone ==
    /\ pc = "k8s_apply"
    /\ UNCHANGED <<now, pollVars, fsVars, scanVars, servicePort, otherVars>>
    /\ \E error \in BOOLEAN :
         LET file == Head(k8sQueue)
             done == Append(applyLog, [ev |-> IF error THEN "fail" ELSE "ok", file |-> file])
             q == SkipMissing(fs, cwd, Tail(k8sQueue))
         IN  IF Rejects(error)
             THEN /\ applyLog' = done
                  /\ inflight' = inflight \ {ApplyCommand(file)}
                  /\ pc' = "k8s_done"
                  /\ k8sOutcome' = "rejected"
                  /\ k8sError' = "kubectl apply failed"
                  /\ UNCHANGED k8sQueue
             ELSE /\ UNCHANGED <<k8sOutcome, k8sError>>
                  /\ IF q = << >>
                     THEN /\ pc' = "poll_start"
                          /\ k8sQueue' = << >>
                          /\ inflight' = inflight \ {ApplyCommand(file)}
                          /\ applyLog' = done
                     ELSE /\ pc' = "k8s_apply"
                          /\ k8sQueue' = q
                          /\ inflight' = (inflight \ {ApplyCommand(file)}) \cup Launched(q)
                          /\ applyLog' = Append(done, [ev |-> "start", file |-> Head(q)])

\* waitForPodsReady has ended (494): on success the pods are queried once
\* more (500-501); its error is logged and rethrown by the catch block (571-574).
DeployKubernetes_AfterPoll ==
    /\ pc = "poll_done"
    /\ UNCHANGED <<now, pollVars, fsVars, scanVars, k8sQueue, applyLog, servicePort, otherVars>>
    /\ IF pollOutcome = "success"
       THEN /\ pc' = "k8s_report_pods"
            /\ inflight' = inflight \cup {<<"kubectl get pods">>}
            /\ UNCHANGED <<k8sOutcome, k8sError>>
       ELSE /\ pc' = "k8s_done"
            /\ k8sOutcome' = "rejected"
            /\ k8sError' = pollOutcome
            /\ UNCHANGED inflight

\* The callback of exec('kubectl get pods') (501-529).  The rows only produce
\* warnings; then the services are queried (533-534).
DeployKubernetes_PodsReported ==
    /\ pc = "k8s_report_pods"
    /\ UNCHANGED <<now, pollVars, fsVars, scanVars, k8sQueue, applyLog, servicePort, otherVars>>
    /\ \/ /\ pc' = "k8s_done"
          /\ inflight' = inflight \ {<<"kubectl get pods">>}
          /\ k8sOutcome' = "rejected"
          /\ k8sError' = "kubectl get pods failed"
       \/ /\ pc' = "k8s_report_services"
          /\ inflight' = (inflight \ {<<"kubectl get pods">>}) \cup {<<"kubectl get services">>}
          /\ UNCHANGED <<k8sOutcome, k8sError>>

\* stdout of `kubectl get services`, as lines of columns.
SvcHdr == <<"NAME", "TYPE", "CLUSTER-IP", "EXTERNAL-IP", "PORT(S)", "AGE">>
SvcRow(name, ports) == <<name, "NodePort", "10.96.0.7", "<none>", ports, "1m">>
ServiceSamples ==
    { << Blank >>,
      << SvcHdr, SvcRow("kubernetes", "443/TCP"), SvcRow("demo-service", "80:32441/TCP"), Blank >>,
      << SvcHdr, SvcRow("web-service", "80:30080/TCP"), SvcRow("demo-service", "80/TCP") >>,
      << SvcHdr, SvcRow("web-service", "80/TCP"), Blank >>,
      << SvcHdr, SvcRow("kubernetes", "443/TCP") >>,
      << SvcHdr, <<"web-service", "NodePort", "10.96.0.7">>, Blank >> }

\* `${projectName}-service`
ProjectServiceName == "demo-service"

\* portInfo.match(/:(\d+)\//): the captured digits, "null" without a match.
PortMatch(portInfo) ==
    CASE portInfo = "80:32441/TCP" -> "32441"
      [] portInfo = "80:30080/TCP" -> "30080"
      [] OTHER -> "null"

\* The for loop at 547-559 from line i on, servicePort being `port` so far:
\* the final servicePort, or "TypeError" when columns[4] is undefined.
RECURSIVE ServicePortFrom(_, _, _)
ServicePortFrom(lines, i, port) ==
    IF i > Len(lines) THEN port
    ELSE IF IsBlankLine(lines[i]) THEN ServicePortFrom(lines, i + 1, port)
    ELSE IF Column(lines[i], 0) \in {ProjectServiceName, "web-service"}
    THEN IF Column(lines[i], 4) = "undefined" THEN "TypeError"
         ELSE IF PortMatch(Column(lines[i], 4)) # "null"
         THEN ServicePortFrom(lines, i + 1, PortMatch(Column(lines[i], 4)))
         ELSE ServicePortFrom(lines, i + 1, port)
    ELSE ServicePortFrom(lines, i + 1, port)

\* The callback of exec('kubectl get services') (534-568).  An exception in
\* this async callback rejects the callback's own promise, which nothing
\* handles, and the promise deployKubernetes awaits is never settled.
DeployKubernetes_ServicesReported ==
    /\ pc = "k8s_report_services"
    /\ UNCHANGED <<now, pollVars, fsVars, scanVars, k8sQueue, applyLog, otherVars>>
    /\ inflight' = inflight \ {<<"kubectl get services">>}
    /\ pc' = "k8s_done"
    /\ \/ /\ k8sOutcome' = "rejected"
          /\ k8sError' = "kubectl get services failed"
          /\ UNCHANGED servicePort
       \/ \E stdout \in ServiceSamples :
            LET port == ServicePortFrom(stdout, 2, "null") IN
            IF port = "TypeError"
            THEN /\ k8sOutcome' = "unhandledRejection"
                 /\ k8sError' = "TypeError"
                 /\ UNCHANGED servicePort
            ELSE /\ k8sOutcome' = "resolved"
                 /\ k8sError' = ""
                 /\ servicePort' = port

(***************************************************************************)
(* generateNginxConfig (578-596) and deployNginxConfig (599-626)           *)
(***************************************************************************)

\* `${projectName}.conf`, relative to the working directory
ConfName == <<ProjectName, ".conf">>
NginxConfigText == <<"server {", "listen 80;", "proxy_pass http://localhost:4000;", "}">>
StaleConfigText == <<"server {", "listen 8080;", "}">>

\* generateNginxConfig(projectName): the working directory after it.  No
\* function of the script calls it.
generateNginxConfig(dir) == (ConfName :> NginxConfigText) @@ dir

CopyCommand == <<"sudo cp", "demo", ".conf", "/etc/nginx/sites-available/">>
SymlinkCommand == <<"sudo ln -s", "/etc/nginx/sites-available/", "demo", ".conf",
                    "/etc/nginx/sites-enabled/">>
ReloadCommand == <<"sudo nginx -s reload">>
NoCommand == << >>

\* What the callback of `command` does after logging: with an error it throws
\* (NoCommand is started), otherwise it starts the next command of the chain.
ChainNextMutant(command, error) ==
    IF command = CopyCommand THEN SymlinkCommand
    ELSE IF command = SymlinkCommand THEN ReloadCommand
    ELSE NoCommand
ChainNext(command, error) ==
    IF error THEN NoCommand
    ELSE IF command = CopyCommand THEN SymlinkCommand
    ELSE IF command = SymlinkCommand THEN ReloadCommand
    ELSE NoCommand

\* deployNginxConfig(projectName): exec starts the copy command and returns
\* the child process; `await` of that object, which is no promise, resumes at
\* once, the try block ends and the function returns to the scan action,
\* which ends too.
DeployNginxConfig_Call ==
    /\ pc = "nginx_start"
    /\ pc' = "cli_done"
    /\ inflight' = inflight \cup {CopyCommand}
    /\ nginxLog' = Append(nginxLog, [ev |-> "start", command |-> CopyCommand])
    /\ nginxOutcome' = "resolved"
    /\ UNCHANGED <<now, pollVars, fsVars, scanVars, k8sVars, nginxFailureLogged,
                   dockerVars, cliVars>>

\* sudo cp fails when the file to copy does not exist.
CanSucceed(command) == command = CopyCommand => ConfName \in DOMAIN cwd

\* The callbacks of the three exec calls (601-621).  A throw in a callback
\* runs outside deployNginxConfig's try block: it is an uncaught exception
\* and ends the process.
DeployNginxConfig_CommandDone ==
    /\ uncaught = ""
    /\ \E command \in inflight \cap {CopyCommand, SymlinkCommand, ReloadCommand} :
       \E error \in BOOLEAN :
         /\ ~error => CanSucceed(command)
         /\ LET next == ChainNext(command, error)
                done == Append(nginxLog, [ev |-> IF error THEN "fail" ELSE "ok",
                                          command |-> command])
            IN  /\ inflight' = (inflight \ {command})
                                \cup (IF next = NoCommand THEN {} ELSE {next})
                /\ nginxLog' = IF next = NoCommand THEN done
                               ELSE Append(done, [ev |-> "start", command |-> next])
                /\ uncaught' = IF error /\ next = NoCommand THEN "nginx command failed"
                               ELSE uncaught
    /\ UNCHANGED <<pc, now, pollVars, fsVars, scanVars, k8sVars, nginxOutcome,
                   nginxFailureLogged, dockerVars, imageTag, deployChoice>>

(***************************************************************************)
(* deployDocker (247-267)                                                  *)
(***************************************************************************)

\* The command of 249-251, local or over ssh.
RunCommand(remote, tag) ==
    (IF remote THEN <<"ssh", "docker run -d -p 8000:8000">>
     ELSE <<"docker run -d -p 8000:8000">>) \o <<ImageRef(tag)>>

\* deployDocker: exec starts the command and the function returns.
DeployDocker_Call ==
    /\ pc = "docker_start"
    /\ pc' = "cli_done"
    /\ inflight' = inflight \cup {RunCommand(deployChoice = "remote", imageTag)}
    /\ dockerRun' = "running"
    /\ dockerOutcome' = "resolved"
    /\ UNCHANGED <<now, pollVars, fsVars, scanVars, k8sVars, nginxVars, cliVars>>

\* What the callback of exec makes of deployDocker's outcome: the promise
\* has settled when the callback runs, and `throw error` (258) is thrown to
\* the event loop, not to the function's catch block.
CallbackOutcomeMutant(outcome, error) == IF error THEN "rejected" ELSE outcome
CallbackOutcome(outcome, error) == outcome

\* The callback of exec (255-262): an error is logged and thrown out of the
\* callback, an uncaught exception.
DeployDocker_RunDone ==
    /\ uncaught = ""
    /\ dockerRun = "running"
    /\ inflight' = inflight \ {RunCommand(deployChoice = "remote", imageTag)}
    /\ \E error \in BOOLEAN :
         /\ dockerRun' = IF error THEN "failed" ELSE "ok"
         /\ uncaught' = IF error THEN "docker run failed" ELSE uncaught
         /\ dockerOutcome' = CallbackOutcome(dockerOutcome, error)
    /\ UNCHANGED <<pc, now, pollVars, fsVars, scanVars, k8sVars, nginxVars,
                   imageTag, deployChoice>>

(***************************************************************************)
(* The scan command (728-766)                                              *)
(***************************************************************************)

DeployChoices == {"no", "local", "remote", "k8s", "nginx", "other"}

\* scanProject has resolved (737): the operator answers the deploy prompts
\* (743-746) and the chosen driver is called.
Scan_DeployPrompt ==
    /\ pc = "scan_done"
    /\ scanOutcome = "resolved"
    /\ deployChoice = ""
    /\ \E choice \in DeployChoices :
         /\ deployChoice' = choice
         /\ pc' = CASE choice \in {"local", "remote"} -> "docker_start"
                    [] choice = "k8s" -> "k8s_start"
                    [] choice = "nginx" -> "nginx_start"
                    [] OTHER -> "cli_done"
    /\ UNCHANGED <<now, inflight, pollVars, fsVars, scanVars, k8sVars, nginxVars,
                   dockerVars, imageTag, uncaught>>

(***************************************************************************)
(* Specifications                                                          *)
(***************************************************************************)

EmptyTree == [p \in {} |-> << >>]

IdlePoll ==
    /\ timeout = DefaultTimeout
    /\ startTime = 0
    /\ lastSample = NoSample
    /\ readySeen = 0
    /\ pollOutcome = "none"
    /\ queryFailed = FALSE

IdleFs ==
    /\ projectPathKind = "dir"
    /\ fs = EmptyTree
    /\ written = {}
    /\ cwd = EmptyTree

IdleK8s ==
    /\ k8sQueue = << >>
    /\ applyLog = << >>
    /\ k8sOutcome = "none"
    /\ k8sError = ""
    /\ servicePort = ""

IdleScan ==
    /\ fsAtStart = EmptyTree
    /\ scans = 0
    /\ dockerFileFound = FALSE
    /\ packageJsonFound = FALSE
    /\ generated = FALSE
    /\ build = NoBuild
    /\ scanOutcome = "none"
    /\ scanError = ""

IdleOther ==
    /\ nginxLog = << >>
    /\ nginxOutcome = "none"
    /\ nginxFailureLogged = FALSE
    /\ dockerRun = "none"
    /\ dockerOutcome = "none"
    /\ imageTag = "latest"
    /\ deployChoice = ""
    /\ uncaught = ""

\* ---- waitForPodsReady on its own, for every timeout up to MaxTimeout
InitPoll ==
    /\ pc = "poll_start"
    /\ now = 0
    /\ inflight = {}
    /\ timeout \in 0..MaxTimeout
    /\ startTime = 0
    /\ lastSample = NoSample
    /\ readySeen = 0
    /\ pollOutcome = "none"
    /\ queryFailed = FALSE
    /\ IdleFs /\ IdleScan /\ IdleK8s /\ IdleOther

NextPoll ==
    \/ WaitForPodsReady_Enter
    \/ WaitForPodsReady_QueryDone
    \/ WaitForPodsReady_SleepDone

SpecPoll == InitPoll /\ [][NextPoll]_vars

\* ---- scanProject on a project tree
ScanFiles == {F_Dockerfile, F_ProdDockerfile, F_AppDockerfile, F_PackageJson,
              F_MyPackageJson, F_AppPackageJson, F_IndexJs, F_Readme}

InitialText(path, pkg, idx) ==
    IF path = F_PackageJson THEN pkg
    ELSE IF path = F_IndexJs THEN idx
    ELSE IF path \in {F_MyPackageJson, F_AppPackageJson} THEN PkgNoDeps
    ELSE IF path = F_Readme THEN ReadmeText
    ELSE UserDockerfile

ScanTrees ==
    { [p \in S |-> InitialText(p, pkg, idx)] :
        S \in SUBSET ScanFiles,
        pkg \in {PkgExpress, PkgPlain, PkgNoDeps, PkgBroken},
        idx \in {IndexListen8000, IndexListen3000} }

InitScan ==
    /\ pc = "scan_start"
    /\ now = 0
    /\ inflight = {}
    /\ IdlePoll /\ IdleScan /\ IdleK8s /\ IdleOther
    /\ written = {}
    /\ cwd = EmptyTree
    /\ \/ projectPathKind = "dir" /\ fs \in ScanTrees
       \/ projectPathKind \in {"file", "missing"} /\ fs = EmptyTree

NextScan ==
    \/ ScanProject_Run
    \/ BuildDockerImage_Exit
    \/ ScanProject_Again

SpecScan == InitScan /\ [][NextScan]_vars

\* ---- deployKubernetes on a project tree
K8sFiles == {F_WebDeployment, F_ApiDeployment, F_WebService, F_DbService, F_Readme}

K8sTrees ==
    { [p \in S |-> IF p = F_WebDeployment THEN web
                   ELSE IF p = F_Readme THEN ReadmeText ELSE ManifestText] :
        S \in SUBSET K8sFiles,
        web \in {WebDeploymentOne, WebDeploymentTwo, WebDeploymentOther} }

InitK8s ==
    /\ pc = "k8s_start"
    /\ now = 0
    /\ inflight = {}
    /\ IdlePoll /\ IdleScan /\ IdleK8s /\ IdleOther
    /\ written = {}
    /\ cwd = EmptyTree
    /\ \/ projectPathKind = "dir" /\ fs \in K8sTrees
       \/ projectPathKind = "undefined" /\ fs = EmptyTree

NextK8s ==
    \/ DeployKubernetes_Call
    \/ DeployKubernetes_ApplyDone
    \/ WaitForPodsReady_Enter
    \/ WaitForPodsReady_QueryDone
    \/ WaitForPodsReady_SleepDone
    \/ DeployKubernetes_AfterPoll
    \/ DeployKubernetes_PodsReported
    \/ DeployKubernetes_ServicesReported

SpecK8s == InitK8s /\ [][NextK8s]_vars

\* ---- the scan command: scanProject, then the deploy prompts and a driver
CliFiles == {F_PackageJson, F_Dockerfile, F_WebDeployment, F_WebService}

CliTrees ==
    { [p \in S |-> IF p = F_PackageJson THEN PkgExpress
                   ELSE IF p = F_WebDeployment THEN web
                   ELSE IF p = F_WebService THEN ManifestText
                   ELSE UserDockerfile] :
        S \in SUBSET CliFiles, web \in {WebDeploymentOne, WebDeploymentTwo} }

Init ==
    /\ pc = "scan_start"
    /\ now = 0
    /\ inflight = {}
    /\ IdlePoll /\ IdleScan /\ IdleK8s
    /\ written = {}
    /\ cwd \in {EmptyTree, (ConfName :> StaleConfigText)}
    /\ \/ projectPathKind = "dir" /\ fs \in CliTrees
       \/ projectPathKind \in {"file", "missing"} /\ fs = EmptyTree
    /\ nginxLog = << >>
    /\ nginxOutcome = "none"
    /\ nginxFailureLogged = FALSE
    /\ dockerRun = "none"
    /\ dockerOutcome = "none"
    /\ imageTag \in {"latest", "v1"}
    /\ deployChoice = ""
    /\ uncaught = ""

Next ==
    \/ ScanProject_Run
    \/ BuildDockerImage_Exit
    \/ Scan_DeployPrompt
    \/ DeployDocker_Call
    \/ DeployDocker_RunDone
    \/ DeployKubernetes_Call
    \/ DeployKubernetes_ApplyDone
    \/ WaitForPodsReady_Enter
    \/ WaitForPodsReady_QueryDone
    \/ WaitForPodsReady_SleepDone
    \/ DeployKubernetes_AfterPoll
    \/ DeployKubernetes_PodsReported
    \/ DeployKubernetes_ServicesReported
    \/ DeployNginxConfig_Call
    \/ DeployNginxConfig_CommandDone

Spec == Init /\ [][Next]_vars

(***************************************************************************)
(* C1                                                                      *)
(***************************************************************************)

\* What the claim calls a ready sample: every data row (the first line and
\* empty lines left out) has "Running" in its status column, the third.
EveryRowRunning(sample) ==
    \A i \in 2..Len(sample) :
        ~(\A j \in 1..Len(sample[i]) : sample[i][j] = "")
            => (Len(sample[i]) >= 3 /\ sample[i][3] = "Running")

C1_State ==
    /\ pollOutcome = "success" =>
          /\ lastSample # NoSample /\ EveryRowRunning(lastSample)
          /\ readySeen = 1
    /\ pollOutcome # "success" => readySeen = 0
    /\ (lastSample # NoSample /\ EveryRowRunning(lastSample)) => pollOutcome = "success"
    /\ pollOutcome = "timeout" =>
          /\ now - startTime >= timeout
          /\ lastSample # NoSample => ~EveryRowRunning(lastSample)
    /\ pc = "poll_sleep" => (lastSample # NoSample /\ ~EveryRowRunning(lastSample))

C1_Step ==
    /\ (pc = "poll_query" /\ pc' # "poll_query" /\ pollOutcome' # "queryError") =>
          IF EveryRowRunning(lastSample')
          THEN pc' = "poll_done" /\ pollOutcome' = "success"
          ELSE pc' = "poll_sleep"
    /\ (pc = "poll_sleep" /\ pc' # "poll_sleep") =>
          /\ now' >= now + 5
          /\ IF now' - startTime < timeout
             THEN pc' = "poll_query"
             ELSE pc' = "poll_done" /\ pollOutcome' = "timeout"
    /\ pc' = "poll_query" => pc \in {"poll_start", "poll_sleep", "poll_query"}

\* C1: waitForPodsReady succeeds exactly on the first sample whose data rows
\* are all "Running"; it fails with the timeout error only once `timeout`
\* seconds have passed with no such sample; a sample that is not ready is
\* followed by a wait of at least 5 seconds and then, if time remains, by a
\* fresh sample.
C1_PollContract == [](C1_State) /\ [][C1_Step]_vars

\* A poll that slept after a not-ready sample and then succeeded.
C1_Witness ==
    /\ pollOutcome = "success"
    /\ now - startTime >= 5
    /\ Len(lastSample) >= 3

(***************************************************************************)
(* C3 - C6: scanProject                                                    *)
(***************************************************************************)

\* A build file, as the claims name it: a file whose name ends, whatever the
\* case of its letters, in "dockerfile".
IsBuildFile(path) == EndsWith(ToLowerCase(Basename(path)), <<"dockerfile">>)

\* C3: buildDockerImage fails with the build-file-not-found error if and only
\* if the tree holds no file whose name case-insensitively ends in
\* "dockerfile".
C3_BuildFileNotFoundIff ==
    build.called =>
        ((build.dockerfilePath = NotFound) <=> ~(\E p \in DOMAIN fs : IsBuildFile(p)))

\* C4: a build file present when scanProject is called has the same content
\* when scanProject ends, also on a second scan after the first one
\* synthesized the file.
C4_NeverOverwrites ==
    \A p \in DOMAIN fsAtStart :
        IsBuildFile(p) => (p \in DOMAIN fs /\ fs[p] = fsAtStart[p])

\* The second scan of a directory whose Dockerfile the first scan wrote has ended.
C4_Witness ==
    /\ scans = 2
    /\ pc = "scan_done"
    /\ F_Dockerfile \in DOMAIN fsAtStart
    /\ fsAtStart[F_Dockerfile] # UserDockerfile
    /\ fs[F_Dockerfile] = fsAtStart[F_Dockerfile]

\* C5: on a directory with no file named package.json anywhere in its tree,
\* scanProject finds the project type unknown, writes no build file and
\* starts no build.
C5_NoManifestNoBuild ==
    (/\ pc \in {"scan_done", "build_running"}
     /\ projectPathKind = "dir"
     /\ ~(\E p \in DOMAIN fsAtStart : Basename(p) = <<"package.json">>))
    => (~packageJsonFound /\ written = {} /\ ~build.called)

\* C6: scanProject on a path that is not a directory rejects with a
\* NotADirectory error, and enumerates, writes and builds nothing.
C6_NotADirectoryRejects ==
    (pc = "scan_done" /\ projectPathKind = "file")
    => (/\ scanOutcome = "rejected"
        /\ scanError = "NotADirectory"
        /\ ~build.called
        /\ written = {})

(***************************************************************************)
(* C2, C7: deployKubernetes                                                *)
(***************************************************************************)

\* The kind of a manifest, as the claims name it, from the end of its name.
IsDeploymentKind(file) == file[Len(file)] = "deployment.yaml"
IsServiceKind(file) == file[Len(file)] = "service.yaml"

\* The manifests the driver has to apply: those of the project tree and those
\* it generated in the working directory.
ManifestsToApply ==
    { PathString(f) : f \in { g \in DOMAIN fs :
                              IsDeploymentKind(PathString(g)) \/ IsServiceKind(PathString(g)) } }
    \cup { CwdPath(n) : n \in DOMAIN cwd }

PollBegun ==
    pc \in {"poll_start", "poll_query", "poll_sleep", "poll_done",
            "k8s_report_pods", "k8s_report_services"}

\* C2: every deployment-kind manifest is applied before any service-kind
\* manifest, an apply command starts only after the one before it has
\* completed, and the readiness poll starts only after the applies of both
\* buckets have completed.
C2_ApplyOrder ==
    /\ \A i, j \in 1..Len(applyLog) :
          (i < j /\ applyLog[i].ev = "start" /\ applyLog[j].ev = "start")
          => ~(IsServiceKind(applyLog[i].file) /\ IsDeploymentKind(applyLog[j].file))
    /\ \A i \in 1..(Len(applyLog) - 1) :
          applyLog[i].ev = "start"
          => (applyLog[i + 1].ev \in {"ok", "fail"} /\ applyLog[i + 1].file = applyLog[i].file)
    /\ Cardinality({c \in inflight : c[1] = "kubectl apply -f"}) <= 1
    /\ PollBegun =>
          /\ {c \in inflight : c[1] = "kubectl apply -f"} = {}
          /\ \A file \in ManifestsToApply :
                \E i \in 1..Len(applyLog) : applyLog[i] = [ev |-> "ok", file |-> file]

\* Two deployments and two services have been applied and the poll is running.
C2_Witness ==
    /\ pc = "poll_query"
    /\ Len(applyLog) = 8
    /\ IsDeploymentKind(applyLog[3].file)
    /\ IsServiceKind(applyLog[5].file)

\* C7: on a project tree with no deployment and no service manifest (both
\* buckets empty) the driver writes <project>-deployment.yaml and
\* <project>-service.yaml into the working directory and applies exactly
\* those two, the deployment first.
C7_GeneratesWhenEmpty ==
    (/\ pc # "k8s_start"
     /\ projectPathKind = "dir"
     /\ ~(\E f \in DOMAIN fs : IsDeploymentKind(PathString(f)) \/ IsServiceKind(PathString(f))))
    => (/\ DOMAIN cwd = {GeneratedDeployment, GeneratedService}
        /\ {CwdPath(GeneratedDeployment), CwdPath(GeneratedService)} \subseteq written
        /\ applyLog # << >>
        /\ applyLog[1] = [ev |-> "start", file |-> CwdPath(GeneratedDeployment)]
        /\ \A i \in 1..Len(applyLog) :
              applyLog[i].file \in {CwdPath(GeneratedDeployment), CwdPath(GeneratedService)})

(***************************************************************************)
(* C8 - C10: the proxy driver                                              *)
(***************************************************************************)

\* C8: with the nginx deployment type chosen, the copy command is run only
\* after the driver has written <project>.conf into the working directory in
\* the same invocation.
C8_ConfigWrittenBeforeCopy ==
    (\E i \in 1..Len(nginxLog) : nginxLog[i] = [ev |-> "start", command |-> CopyCommand])
    => CwdPath(ConfName) \in written

ChainOrder == <<CopyCommand, SymlinkCommand, ReloadCommand>>

\* C9: the commands are started in the order copy, symlink, reload, each one
\* after the first right after the one before it has completed successfully,
\* and nothing follows a failed command.
C9_ChainOrder ==
    LET starts == SelectSeq(nginxLog, LAMBDA e : e.ev = "start") IN
    /\ Len(starts) <= 3
    /\ \A k \in 1..Len(starts) : starts[k].command = ChainOrder[k]
    /\ \A i \in 2..Len(nginxLog) :
          nginxLog[i].ev = "start" =>
             /\ nginxLog[i - 1].ev = "ok"
             /\ \E k \in 1..2 : /\ nginxLog[i - 1].command = ChainOrder[k]
                                /\ nginxLog[i].command = ChainOrder[k + 1]
    /\ \A i \in 1..Len(nginxLog) : nginxLog[i].ev = "fail" => i = Len(nginxLog)
    /\ Cardinality(inflight \cap {CopyCommand, SymlinkCommand, ReloadCommand}) <= 1

\* Copy and symlink succeeded and the reload command failed.
C9_Witness ==
    /\ Len(nginxLog) = 6
    /\ nginxLog[6] = [ev |-> "fail", command |-> ReloadCommand]

\* C10: when a command of the chain fails, deployNginxConfig fails towards
\* its caller and the failed Nginx deployment is logged; and the driver does
\* not report completion before the chain has finished.
C10_FailureReachesCaller ==
    /\ (\E i \in 1..Len(nginxLog) : nginxLog[i].ev = "fail")
          => (nginxOutcome = "rejected" /\ nginxFailureLogged)
    /\ nginxOutcome = "resolved"
          => (/\ nginxLog # << >>
              /\ nginxLog[Len(nginxLog)] = [ev |-> "ok", command |-> ReloadCommand])

(***************************************************************************)
(* C11: deployDocker                                                       *)
(***************************************************************************)

\* C11: once deployDocker has launched the run command its outcome to the
\* caller is success, whether the command is still running, has succeeded or
\* has failed; a failed run command never turns the outcome into a rejection
\* and never moves the caller's control flow.
C11_FireAndForget ==
    /\ [](dockerRun # "none" => dockerOutcome = "resolved")
    /\ [](dockerOutcome # "rejected")
    /\ [][dockerRun = "running" /\ dockerRun' # "running"
            => (dockerOutcome' = dockerOutcome /\ pc' = pc)]_vars

\* The run command has failed after deployDocker returned.
C11_Witness ==
    /\ dockerRun = "failed"
    /\ dockerOutcome = "resolved"
    /\ deployChoice = "remote"

(***************************************************************************)
(* C12, C13: deployKubernetes after the applies                            *)
(***************************************************************************)

\* C12: once the readiness poll has succeeded, deployKubernetes ends
\* successfully whatever the two status queries return, having reported a
\* port or the "could not determine" warning.
C12_ReportNeverFails ==
    (pc = "k8s_done" /\ pollOutcome = "success")
    => (k8sOutcome = "resolved" /\ servicePort # "")

\* The rewrite step of deployKubernetes has run in this invocation.
Rewritten == PathString(F_WebDeployment) \in written /\ F_WebDeployment \in DOMAIN fs

\* C13: after the rewrite step every container of web-deployment.yaml has the
\* image <project>:latest and the pull policy IfNotPresent, whatever tag the
\* operator entered and the image was built with; a tag other than latest
\* appears nowhere in the manifest.
C13_RewriteUsesLatest ==
    Rewritten =>
        LET text == fs[F_WebDeployment]
            containers == YamlLoad(text)
        IN  /\ HasContainerList(text)
            /\ containers # << >>
            /\ \A i \in 1..Len(containers) :
                  /\ containers[i].image = "demo:latest"
                  /\ containers[i].imagePullPolicy = "IfNotPresent"
            /\ imageTag # "latest" => ~Includes(text, ImageRef(imageTag))

\* The image was built with the tag v1, and the manifest that named demo:v1
\* and a sidecar has been rewritten.
C13_Witness ==
    /\ Rewritten
    /\ imageTag = "v1"
    /\ build.exitCode = 0
    /\ Len(YamlLoad(fs[F_WebDeployment])) = 2

(***************************************************************************)
(* C14: the synthesized Dockerfile                                         *)
(***************************************************************************)

\* The root manifest declares the express dependency; the root index.js
\* contains app.listen(8000).
DeclaresExpress(tree) == F_PackageJson \in DOMAIN tree /\ tree[F_PackageJson] = PkgExpress
ListensOn8000(tree) == F_IndexJs \in DOMAIN tree /\ tree[F_IndexJs] = IndexListen8000

\* The build file the claim describes: the template, trimmed, with its
\* expose line and its start command as the two conditions decide.
ExpectedDockerfile(express, listen) ==
    <<"FROM node:18", "\n", "WORKDIR /app", "\n", "COPY . .", "\n", "RUN npm install", "\n",
      IF express \/ listen THEN "EXPOSE 8000" ELSE "EXPOSE 3000", "\n",
      IF express THEN "CMD [\"node\", \"index.js\"]" ELSE "CMD [\"npm\", \"start\"]">>

\* C14: the build file scanProject writes for a nodejs project is decided by
\* the template, the root manifest and the root index.js alone: EXPOSE 8000
\* and the node index.js command with the express dependency, EXPOSE 8000
\* with app.listen(8000) in index.js, the trimmed template otherwise.
C14_SynthesizedContent ==
    generated =>
        /\ F_Dockerfile \in DOMAIN fs
        /\ fs[F_Dockerfile] = ExpectedDockerfile(DeclaresExpress(fsAtStart),
                                                 ListensOn8000(fsAtStart))

\* Both conditions held and the file was written.
C14_Witness ==
    /\ generated
    /\ DeclaresExpress(fsAtStart)
    /\ ListensOn8000(fsAtStart)
    /\ Includes(fs[F_Dockerfile], "EXPOSE 8000")
    /\ ~Includes(fs[F_Dockerfile], "EXPOSE 3000")

(***************************************************************************)
(* C15: buildDockerImage                                                   *)
(***************************************************************************)

BuildInFlight == \E c \in inflight : c[1] = "docker build -t"

\* C15: a build that has exited made scanProject resolve if its exit status
\* was 0 and reject with the error naming that status otherwise; the build
\* command is started only by the one call of an invocation, and its exit
\* ends scanProject, so it is never run again.
C15_BuildOutcome ==
    /\ []((pc = "scan_done" /\ build.exitCode # -1) =>
            /\ scanOutcome = "resolved" <=> build.exitCode = 0
            /\ build.exitCode = 0 => scanError = ""
            /\ build.exitCode = 1 => scanError = "Docker build failed with exit code 1"
            /\ build.exitCode = 2 => scanError = "Docker build failed with exit code 2")
    /\ [][(BuildInFlight' /\ ~BuildInFlight) => (pc = "scan_start" /\ scans' = scans + 1)]_vars
    /\ [][(BuildInFlight /\ ~BuildInFlight') => (pc' = "scan_done" /\ build'.exitCode # -1)]_vars

\* A build has exited with status 2.
C15_Witness ==
    /\ pc = "scan_done"
    /\ build.called
    /\ build.exitCode = 2
    /\ scanOutcome = "rejected"

(***************************************************************************)
(* C16, C17: the scan command                                              *)
(***************************************************************************)

\* C16: the deploy prompt is answered, and a driver started, only in an
\* invocation whose image build has run and exited with status 0.
C16_DeployOnlyAfterBuild ==
    deployChoice # "" => (build.called /\ build.exitCode = 0)

\* C17: at most one external command launched by the script is in flight,
\* and a command is launched only when none, or only the one completing in
\* the same step, was in flight.
C17_OneCommandInFlight ==
    /\ [](Cardinality(inflight) <= 1)
    /\ [][\A c \in inflight' \ inflight : inflight \cap inflight' = {}]_vars

\* The second apply command of the orchestrator driver is in flight.
C17_Witness ==
    /\ pc = "k8s_apply"
    /\ Len(applyLog) = 3
    /\ inflight = {ApplyCommand(applyLog[3].file)}
    /\ build.exitCode = 0

(***************************************************************************)
(* C18, C19: failures in deployKubernetes and waitForPodsReady             *)
(***************************************************************************)

ApplyFailed == \E i \in 1..Len(applyLog) : applyLog[i].ev = "fail"

\* C18: a failed apply is the last command deployKubernetes runs: the driver
\* has failed with that error, the manifest is not applied again, no later
\* manifest is applied, the readiness poll has not started, no command is in
\* flight, and nothing happens afterwards.
C18_ApplyFailureIsTerminal ==
    /\ [](ApplyFailed =>
            /\ applyLog[Len(applyLog)].ev = "fail"
            /\ \A i \in 1..(Len(applyLog) - 1) : applyLog[i].ev # "fail"
            /\ Cardinality({i \in 1..Len(applyLog) :
                               applyLog[i] = [ev |-> "start",
                                              file |-> applyLog[Len(applyLog)].file]}) = 1
            /\ pc = "k8s_done"
            /\ k8sOutcome = "rejected"
            /\ k8sError = "kubectl apply failed"
            /\ inflight = {}
            /\ pollOutcome = "none" /\ lastSample = NoSample)
    /\ [][ApplyFailed => UNCHANGED vars]_vars

\* The first manifest was applied, the second failed, and a third was left.
C18_Witness ==
    /\ Len(applyLog) = 4
    /\ applyLog[2].ev = "ok"
    /\ applyLog[4].ev = "fail"
    /\ Len(k8sQueue) >= 2

PollOutcomes == {"success", "queryError", "timeout"}

\* C19: a failed status query ends waitForPodsReady at once with the query
\* error: the step of the failure takes no sample and starts no sleep and no
\* query, whatever time is left; and the poll has ended exactly when it has
\* one of the three outcomes success, query error and timeout, after which
\* it does nothing more.
C19_QueryFailureEndsPoll ==
    /\ [](queryFailed <=> pollOutcome = "queryError")
    /\ [](queryFailed => (pc = "poll_done" /\ inflight = {}))
    /\ [][(queryFailed' /\ ~queryFailed) =>
             (pc = "poll_query" /\ lastSample' = lastSample /\ readySeen' = readySeen)]_vars
    /\ [](pc = "poll_done" <=> pollOutcome \in PollOutcomes)
    /\ [](pollOutcome \in PollOutcomes \cup {"none"})
    /\ [][pc = "poll_done" => UNCHANGED vars]_vars

\* The first query failed, long before the timeout.
C19_Witness ==
    /\ pollOutcome = "queryError"
    /\ lastSample = NoSample
    /\ now - startTime < timeout

(***************************************************************************)
(* C20: the build uses the synthesized file                                *)
(***************************************************************************)

\* C20: in a call of scanProject that wrote a build file, the build-file
\* lookup returns that file, at the project root, and the build context is
\* the project root.
C20_BuildUsesSynthesized ==
    (pc # "scan_start" /\ generated /\ build.called) =>
        /\ build.dockerfilePath = F_Dockerfile
        /\ build.buildContext = << >>
        /\ F_Dockerfile \notin DOMAIN fsAtStart
        /\ PathString(F_Dockerfile) \in written

\* A build file was written for a tree with a subdirectory, which the
\* lookup walks before it reaches the root's Dockerfile.
C20_Witness ==
    /\ generated
    /\ build.called
    /\ build.exitCode = 0
    /\ F_AppPackageJson \in DOMAIN fs
    /\ F_PackageJson \in DOMAIN fs

====
